---- MODULE Spec2Model ----
(***************************************************************************)
(* renderLottie (src/unnamed/part_000): one invocation of the frame        *)
(* capture and encode pipeline, as a state machine.  pc is the position of *)
(* the async function; every await of the source is a step that either     *)
(* completes or throws.  The ffmpeg child process and its stdin stream are *)
(* the only concurrent parties: their events interleave with the steps.    *)
(***************************************************************************)
EXTENDS Integers, Sequences, FiniteSets

(***************************************************************************)
(* JavaScript values.  A value is a record [t, n, d]; a number or a        *)
(* numeric string stands for the rational n/d (d > 0).  All numbers of the *)
(* model are far below 2^31, where ~~x and x|0 are plain truncation.       *)
(***************************************************************************)
Undef == [t |-> "undefined", n |-> 0, d |-> 1]
Null == [t |-> "null", n |-> 0, d |-> 1]
Text == [t |-> "text", n |-> 0, d |-> 1]
Num(k) == [t |-> "number", n |-> k, d |-> 1]
Frac(k, m) == [t |-> "number", n |-> k, d |-> m]
Str(k) == [t |-> "string", n |-> k, d |-> 1]

\* JavaScript truthiness: undefined, null, 0 are falsy; a non-empty string is truthy.
Truthy(v) ==
    CASE v.t = "number" -> v.n # 0
      [] v.t = "string" -> TRUE
      [] v.t = "text" -> TRUE
      [] OTHER -> FALSE

\* Truncation towards zero of n/d.
Trunc(n, d) == IF n >= 0 THEN n \div d ELSE -((-n) \div d)

\* ~~v and v | 0: ToInt32, which is 0 for undefined, null and a non-numeric string.
ToInt32(v) == IF v.t \in {"number", "string"} THEN Trunc(v.n, v.d) ELSE 0

\* Math.round(a / b) for b > 0: the nearest integer, a tie going up.
RoundDiv(a, b) == (2 * a + b) \div (2 * b)

\* ow.number.integer.positive
IsPositiveIntegerAllowZero(v) == v.t = "number" /\ v.n % v.d = 0 /\ v.n >= 0
IsPositiveInteger(v) == v.t = "number" /\ v.n % v.d = 0 /\ v.n > 0

(***************************************************************************)
(* Bounds of the model.                                                    *)
(***************************************************************************)
MaxFrames == 4
MaxFirstFrame == 1
MaxDuration == 2

\* "Don't make it too small": the threshold below which targetFps falls back to fps.
PipeCapacity == 2
MinTargetFps == 20
\* Defaults of the destructuring { w = 640, h = 480 } = lottieData.
DefaultW == 640
DefaultH == 480

(***************************************************************************)
(* The output path: its extension and whether it holds a %d placeholder.   *)
(***************************************************************************)
Out(e, p) == [ext |-> e, pattern |-> p]

isGif(output) == output.ext = "gif"
isMp4(output) == output.ext = "mp4"
isPng(output) == output.ext = "png"
isJpg(output) == output.ext \in {"jpg", "jpeg"}

Supported(output) == isGif(output) \/ isMp4(output) \/ isPng(output) \/ isJpg(output)

\* tempOutput is 'frame-%012d.png' in the temp directory for a GIF, output otherwise.
isMultiFrame(output) == isMp4(output) \/ isGif(output) \/ output.pattern

(***************************************************************************)
(* Source selection (the animationPath / animationData branches).  The     *)
(* result is the error thrown, or "" when lottieData is loaded.            *)
(***************************************************************************)
SourceErrorPathWins(hasData, hasPath, readOk) ==
    IF hasPath
    THEN IF readOk THEN "" ELSE "ReadJsonFailed"
    ELSE IF hasData THEN "" ELSE "MissingSource"

SourceError(hasData, hasPath, readOk) ==
    IF hasPath
    THEN IF hasData THEN "MutuallyExclusive"
         ELSE IF readOk THEN "" ELSE "ReadJsonFailed"
    ELSE IF hasData THEN "" ELSE "MissingSource"

\* const { w = 640, h = 480 } = lottieData: the default replaces undefined only.
WithDefault(v, dflt) == IF v.t = "undefined" THEN Num(dflt) ELSE v

\* The three ow checks on fps, w and h, in order.
MetadataError(data) ==
    IF ~IsPositiveInteger(Num(ToInt32(data.fr))) THEN "InvalidFr"
    ELSE IF ~IsPositiveInteger(WithDefault(data.w, DefaultW)) THEN "InvalidW"
    ELSE IF ~IsPositiveInteger(WithDefault(data.h, DefaultH)) THEN "InvalidH"
    ELSE ""

\* Everything renderLottie checks before the browser: the first error, or "".
ConfigError(o, readOk) ==
    IF ~IsPositiveInteger(Num(o.deviceScaleFactor)) THEN "InvalidOption"
    ELSE IF ~Supported(o.output) THEN "UnsupportedFormat"
    ELSE IF SourceError(o.animationData, o.path, readOk) # ""
         THEN SourceError(o.animationData, o.path, readOk)
    ELSE MetadataError(o.data)

(***************************************************************************)
(* Output size: if only one of width and height is given the other follows *)
(* the aspect ratio aR = w / h.  Math.round(width / aR) is                 *)
(* round(width * h / w) and Math.round(height * aR) is                     *)
(* round(height * w / h); the double arithmetic of the source agrees with  *)
(* the exact quotient on every value the model draws.                      *)
(***************************************************************************)
DerivedWidth(width, height, w, h) ==
    IF Truthy(width) /\ Truthy(height) THEN ToInt32(width)
    ELSE IF Truthy(width) THEN ToInt32(width)
    ELSE IF Truthy(height) THEN RoundDiv(ToInt32(height) * w, h)
    ELSE w

DerivedHeight(width, height, w, h) ==
    IF Truthy(width) /\ Truthy(height) THEN ToInt32(height)
    ELSE IF Truthy(width) THEN RoundDiv(ToInt32(width) * h, w)
    ELSE IF Truthy(height) THEN ToInt32(height)
    ELSE h

(***************************************************************************)
(* Frame rate.                                                             *)
(***************************************************************************)
\* rendererSettings.fpsScale || 1
FpsScale(rs) == IF Truthy(rs.fpsScale) THEN rs.fpsScale ELSE Num(1)

\* Math.floor(fps * fpsScale), falling back to fps below the threshold.
TargetFpsNoFallback(f, scale) == (f * scale.n) \div scale.d
TargetFps(f, scale) ==
    LET t == (f * scale.n) \div scale.d
    IN  IF t < MinTargetFps THEN f ELSE t

\* if (numFrames % 2 === 1 && numFrames > 1) --numFrames
ParityFixNone(n) == n
ParityFix(n) == IF n % 2 = 1 /\ n > 1 THEN n - 1 ELSE n

(***************************************************************************)
(* deleteStep = Math.round(numFrames / (numFrames - numFrames *            *)
(* (targetFps / fps))): NaN for 0/0, Infinity for n/0, else the rounded    *)
(* quotient fps / (fps - targetFps), which may be negative or zero.        *)
(***************************************************************************)
DeleteStep(n, t, f) ==
    IF n = 0 THEN [t |-> "NaN", n |-> 0]
    ELSE IF t = f THEN [t |-> "Infinity", n |-> 0]
    ELSE IF f > t THEN [t |-> "int", n |-> RoundDiv(f, f - t)]
    ELSE [t |-> "int", n |-> RoundDiv(-f, t - f)]

Abs(x) == IF x < 0 THEN -x ELSE x

\* The skip test with a remainder by a non-finite stride taken to be 0.
SkippedNonFiniteIsZero(fr, ds) ==
    /\ fr > 0
    /\ (ds.t # "int" \/ (ds.n # 0 /\ fr % Abs(ds.n) = 0))

\* frame > 0 && frame % deleteStep === 0; x % NaN, x % 0 are NaN, x % Infinity is x.
Skipped(fr, ds) ==
    /\ fr > 0
    /\ ds.t = "int"
    /\ ds.n # 0
    /\ fr % Abs(ds.n) = 0

\* The loop condition frame < numFrames.
LoopCondInclusive(fr, n) == fr <= n
LoopCond(fr, n) == fr < n

(***************************************************************************)
(* State.                                                                  *)
(***************************************************************************)
VARIABLES
    opts,               \* the options object of the call (see Inputs)
    second,             \* this is the second call made with the same options object
    first,              \* what the first call reported, captured and returned
    rendererSettings,   \* opts.rendererSettings, the caller's object
    pc,                 \* position in renderLottie
    outcome,            \* "pending", "returned" or "threw"
    err,                \* what was thrown ("" when nothing)
    ret,                \* the returned object
    tempDir,            \* a temporary directory was created
    fps, nm, w, h, width, height, fpsScale,
    browser,            \* "none", "open" or "closed"
    page,               \* "none", "open" or "closed"
    reported,           \* what the page reported: duration, firstFrame, numFrames
    duration, firstFrame, numFrames, targetFps, deleteStep, frame,
    seeks,              \* frames given to animation.goToAndStop, in order
    captured,           \* frames whose screenshot completed, in order
    files,              \* image files written by the screenshots
    ffmpeg,             \* "none", "running" or "exited"
    ffmpegStatus,       \* exit status of ffmpeg (null when killed by a signal)
    ffmpegStdin,        \* "none", "open", "ended" or "destroyed"
    ffmpegP,            \* the promise: its state and, once rejected, the reason
    ffmpegArgs,         \* the -r and -vf scale arguments
    piped,              \* frames written to ffmpeg's stdin, in order
    consumed,           \* how many of the piped frames ffmpeg has read from the pipe
    spawns,             \* calls of spawn(ffmpeg)
    ends,               \* calls of ffmpegStdin.end()
    convert,            \* "none", "done" or "failed"
    gifski,             \* "none", "done" or "failed"
    gifskiInputs        \* how many times gifski's command line lists the input pattern

callVars == <<opts, second, first, outcome, err, ret>>
localVars == <<fps, nm, w, h, width, height, fpsScale, tempDir>>
hostVars == <<browser, page>>
metaVars == <<reported, duration, firstFrame, numFrames, targetFps>>
loopVars == <<deleteStep, frame, seeks, captured, files>>
ffmpegVars ==
    <<ffmpeg, ffmpegStatus, ffmpegStdin, ffmpegP, ffmpegArgs, piped, consumed, spawns, ends>>
gifVars == <<convert, gifski, gifskiInputs>>
vars == <<callVars, rendererSettings, pc, localVars, hostVars, metaVars, loopVars,
          ffmpegVars, gifVars>>

NoRet == [numFrames |-> -1, duration |-> -1, name |-> Undef]
NoReport == [duration |-> -1, firstFrame |-> -1, numFrames |-> -1]
NoArgs == [r |-> 0, scaleW |-> 0, scaleH |-> 0]
Promise(s, why) == [state |-> s, reason |-> why]
NoFirst == [reported |-> NoReport, captured |-> <<>>, ret |-> NoRet]

(***************************************************************************)
(* The calls the model makes.  Each family varies some options around one  *)
(* base call (the bodymovin fixture of the tests: 1820 x 275 at 30 fps).   *)
(***************************************************************************)
BaseData == [fr |-> Num(30), w |-> Num(1820), h |-> Num(275), nm |-> Text]

BaseOpts ==
    [output |-> Out("png", FALSE), animationData |-> TRUE, path |-> FALSE,
     data |-> BaseData, width |-> Undef, height |-> Undef,
     deviceScaleFactor |-> 1, rendererSettings |-> [fpsScale |-> Undef],
     browser |-> FALSE]

Outputs ==
    {Out("png", FALSE), Out("png", TRUE), Out("jpg", FALSE), Out("mp4", FALSE),
     Out("gif", FALSE), Out("webm", FALSE)}

FrValues == {Undef, Null, Num(0), Num(-30), Frac(1, 2), Frac(59, 2), Str(30), Num(30)}
WValues == {Undef, Null, Num(0), Frac(3, 2), Str(4), Num(4)}
HValues == {Undef, Num(0), Num(3)}
NmValues == {Undef, Text, Num(7)}
WidthValues == {Undef, Num(3), Num(640)}
HeightValues == {Undef, Num(2), Num(100)}
FpsScaleValues == {Undef, Num(0), Frac(1, 2), Frac(3, 4), Num(1), Num(2)}
FpsValues == {Num(10), Num(30), Num(60)}

SourceInputs ==
    {[BaseOpts EXCEPT !.output = o, !.animationData = a, !.path = p, !.browser = b] :
        o \in Outputs, a \in BOOLEAN, p \in BOOLEAN, b \in BOOLEAN}

MetadataInputs ==
    {[BaseOpts EXCEPT !.data = [fr |-> f, w |-> x, h |-> y, nm |-> n]] :
        f \in FrValues, x \in WValues, y \in HValues, n \in NmValues}

SizeInputs ==
    {[BaseOpts EXCEPT !.output = o, !.data = [BaseData EXCEPT !.w = d[1], !.h = d[2]],
                      !.width = x, !.height = y, !.deviceScaleFactor = s] :
        o \in {Out("png", FALSE), Out("png", TRUE), Out("jpg", FALSE)},
        d \in {<<Num(1820), Num(275)>>, <<Num(4), Num(3)>>},
        x \in WidthValues, y \in HeightValues, s \in {1, 2}}

FpsInputs ==
    {[BaseOpts EXCEPT !.output = o, !.data = [BaseData EXCEPT !.fr = f],
                      !.rendererSettings = [fpsScale |-> k]] :
        o \in Outputs \ {Out("webm", FALSE)}, f \in FpsValues, k \in FpsScaleValues}

\* mp4 calls over widths and heights of every parity.
Mp4SizeInputs ==
    {[BaseOpts EXCEPT !.output = Out("mp4", FALSE),
                      !.data = [BaseData EXCEPT !.w = d[1], !.h = d[2]],
                      !.width = x, !.height = y] :
        d \in {<<Num(1820), Num(275)>>, <<Num(4), Num(3)>>, <<Num(5), Num(3)>>},
        x \in WidthValues, y \in HeightValues}

Inputs ==
    SourceInputs \cup MetadataInputs \cup SizeInputs \cup FpsInputs \cup Mp4SizeInputs

\* The state in which renderLottie is entered.
Entered ==
    /\ pc = "start"
    /\ outcome = "pending"
    /\ err = ""
    /\ ret = NoRet
    /\ tempDir = FALSE
    /\ fps = 0 /\ nm = Undef /\ w = 0 /\ h = 0 /\ width = 0 /\ height = 0
    /\ fpsScale = Undef
    /\ browser = IF opts.browser THEN "open" ELSE "none"
    /\ page = "none"
    /\ reported = NoReport
    /\ duration = -1 /\ firstFrame = -1 /\ numFrames = -1 /\ targetFps = -1
    /\ deleteStep = [t |-> "NaN", n |-> 0]
    /\ frame = -1
    /\ seeks = <<>> /\ captured = <<>> /\ files = {}
    /\ ffmpeg = "none" /\ ffmpegStatus = Undef /\ ffmpegStdin = "none"
    /\ ffmpegP = Promise("none", "") /\ ffmpegArgs = NoArgs /\ piped = <<>>
    /\ consumed = 0 /\ spawns = 0 /\ ends = 0
    /\ convert = "none" /\ gifski = "none" /\ gifskiInputs = 0

Init ==
    /\ opts \in Inputs
    /\ rendererSettings = opts.rendererSettings
    /\ second = FALSE
    /\ first = NoFirst
    /\ Entered

(***************************************************************************)
(* Lines 63-183: option checks, source selection, metadata validation and  *)
(* size derivation, all before anything is started.  An error here is      *)
(* thrown to the caller directly.                                          *)
(***************************************************************************)
Validate ==
    /\ pc = "start"
    /\ \E readOk \in BOOLEAN :
        LET e == ConfigError(opts, readOk)
            w0 == ToInt32(WithDefault(opts.data.w, DefaultW))
            h0 == ToInt32(WithDefault(opts.data.h, DefaultH))
        IN  /\ tempDir' = (e \notin {"InvalidOption", "UnsupportedFormat"}
                           /\ isGif(opts.output))
            /\ IF e # ""
               THEN /\ outcome' = "threw" /\ err' = e /\ pc' = "done"
                    /\ UNCHANGED <<fps, nm, w, h, width, height, fpsScale,
                                   rendererSettings>>
               ELSE /\ fps' = ToInt32(opts.data.fr)
                    /\ nm' = Num(ToInt32(opts.data.nm))
                    /\ w' = w0 /\ h' = h0
                    /\ width' = DerivedWidth(opts.width, opts.height, w0, h0)
                    /\ height' = DerivedHeight(opts.width, opts.height, w0, h0)
                    /\ fpsScale' = FpsScale(rendererSettings)
                    /\ rendererSettings' = [rendererSettings EXCEPT !.fpsScale = Undef]
                    /\ pc' = "launch"
                    /\ UNCHANGED <<outcome, err>>
    /\ UNCHANGED <<opts, second, first, ret, hostVars, metaVars, loopVars, ffmpegVars, gifVars>>

(***************************************************************************)
(* Lines 258-261: opts.browser || await puppeteer.launch(...), then        *)
(* browser.newPage().  Both are outside the try block.                     *)
(***************************************************************************)
LaunchBrowser ==
    /\ pc = "launch"
    /\ \/ /\ opts.browser
          /\ pc' = "newPage"
          /\ UNCHANGED <<browser, outcome, err>>
       \/ /\ ~opts.browser
          /\ browser' = "open"
          /\ pc' = "newPage"
          /\ UNCHANGED <<outcome, err>>
       \/ /\ ~opts.browser
          /\ outcome' = "threw" /\ err' = "LaunchFailed" /\ pc' = "done"
          /\ UNCHANGED browser
    /\ UNCHANGED <<opts, second, first, ret, rendererSettings, localVars, page, metaVars, loopVars,
                   ffmpegVars, gifVars>>

NewPage ==
    /\ pc = "newPage"
    /\ \/ /\ page' = "open"
          /\ pc' = "setup"
          /\ UNCHANGED <<outcome, err>>
       \/ /\ outcome' = "threw" /\ err' = "NewPageFailed" /\ pc' = "done"
          /\ UNCHANGED page
    /\ UNCHANGED <<opts, second, first, ret, rendererSettings, localVars, browser, metaVars, loopVars,
                   ffmpegVars, gifVars>>

(***************************************************************************)
(* Lines 265-307: the page is set up and reports duration, firstFrame and  *)
(* numFrames; the parity fix and targetFps follow.  Any of the awaits may  *)
(* throw, which enters the catch block.                                    *)
(***************************************************************************)
PageSetup ==
    /\ pc = "setup"
    /\ \/ \E d \in 1..MaxDuration, ff \in 0..MaxFirstFrame, n \in 0..MaxFrames :
            \* the same animation reports the same metadata when rendered again
            /\ second => first.reported = [duration |-> d, firstFrame |-> ff, numFrames |-> n]
            /\ reported' = [duration |-> d, firstFrame |-> ff, numFrames |-> n]
            /\ duration' = d
            /\ firstFrame' = ff
            /\ numFrames' = ParityFix(n)
            /\ targetFps' = TargetFps(fps, fpsScale)
            /\ pc' = "spawn"
            /\ UNCHANGED err
       \/ /\ pc' = "catch" /\ err' = "PageFailed"
          /\ UNCHANGED metaVars
    /\ UNCHANGED <<opts, second, first, outcome, ret, rendererSettings, localVars, hostVars, loopVars,
                   ffmpegVars, gifVars>>

(***************************************************************************)
(* Lines 309-384: for an mp4 the ffmpeg child is spawned with its scale    *)
(* filter and the handlers of stdin 'error' and ffmpeg 'exit' are set;     *)
(* deleteStep is computed and the loop starts at firstFrame.               *)
(***************************************************************************)
ScaleWAsGiven(wd, ht) == IF wd % 2 = 0 THEN wd ELSE IF ht % 2 = 0 THEN -2 ELSE wd
ScaleW(wd, ht) == IF wd % 2 = 0 THEN wd ELSE IF ht % 2 = 0 THEN -2 ELSE wd + 1
ScaleH(wd, ht) == IF wd % 2 = 0 THEN -2 ELSE IF ht % 2 = 0 THEN ht ELSE -2

Spawn ==
    /\ pc = "spawn"
    /\ IF isMp4(opts.output)
       THEN /\ ffmpeg' = "running"
            /\ ffmpegStdin' = "open"
            /\ ffmpegP' = Promise("pending", "")
            /\ ffmpegArgs' = [r |-> targetFps, scaleW |-> ScaleW(width, height),
                              scaleH |-> ScaleH(width, height)]
            /\ spawns' = spawns + 1
            /\ UNCHANGED <<ffmpegStatus, piped, consumed, ends>>
       ELSE UNCHANGED ffmpegVars
    /\ deleteStep' = DeleteStep(numFrames, targetFps, fps)
    /\ frame' = firstFrame
    /\ pc' = "loop"
    /\ UNCHANGED <<callVars, rendererSettings, localVars, hostVars, metaVars,
                   seeks, captured, files, gifVars>>

(***************************************************************************)
(* Lines 385-409: the capture loop.                                        *)
(***************************************************************************)
\* The file a screenshot writes: sprintf(tempOutput, frame) or tempOutput, at the
\* size of the viewport set by page.setViewport({deviceScaleFactor, width: w, height: h}).
FrameFile(output, fr, vw, vh, dsf) ==
    [dir |-> IF isGif(output) THEN "temp" ELSE "output",
     index |-> IF isMultiFrame(output) THEN fr ELSE -1,
     width |-> vw * dsf, height |-> vh * dsf]

\* frame < numFrames fails: the loop ends.
LoopExit ==
    /\ pc = "loop"
    /\ ~LoopCond(frame, numFrames)
    /\ pc' = "dispose"
    /\ UNCHANGED <<callVars, rendererSettings, localVars, hostVars, metaVars, loopVars,
                   ffmpegVars, gifVars>>

\* if (frame > 0 && frame % deleteStep === 0) continue
LoopSkip ==
    /\ pc = "loop"
    /\ LoopCond(frame, numFrames)
    /\ Skipped(frame, deleteStep)
    /\ frame' = frame + 1
    /\ UNCHANGED <<callVars, rendererSettings, pc, localVars, hostVars, metaVars,
                   deleteStep, seeks, captured, files, ffmpegVars, gifVars>>

\* await page.evaluate((frame) => animation.goToAndStop(frame, true), frame)
Seek ==
    /\ pc = "loop"
    /\ LoopCond(frame, numFrames)
    /\ ~Skipped(frame, deleteStep)
    /\ \/ /\ seeks' = Append(seeks, frame)
          /\ pc' = "screenshot"
          /\ UNCHANGED err
       \/ /\ pc' = "catch" /\ err' = "SeekFailed"
          /\ UNCHANGED seeks
    /\ UNCHANGED <<opts, second, first, outcome, ret, rendererSettings, localVars, hostVars, metaVars,
                   deleteStep, frame, captured, files, ffmpegVars, gifVars>>

\* await rootHandle.screenshot(...), then break, or write to ffmpeg's stdin and ++frame.
Screenshot ==
    /\ pc = "screenshot"
    /\ \/ /\ captured' = Append(captured, frame)
          /\ files' = IF isMp4(opts.output) THEN files
                      ELSE files \cup {FrameFile(opts.output, frame, w, h,
                                                 opts.deviceScaleFactor)}
          /\ IF ~isMultiFrame(opts.output)
             THEN /\ pc' = "dispose"
                  /\ UNCHANGED <<frame, piped>>
             ELSE /\ piped' = IF isMp4(opts.output) /\ ffmpegStdin = "open"
                              THEN Append(piped, frame) ELSE piped
                  /\ frame' = frame + 1
                  /\ pc' = "loop"
          /\ UNCHANGED err
       \/ /\ pc' = "catch" /\ err' = "ScreenshotFailed"
          /\ UNCHANGED <<captured, files, frame, piped>>
    /\ UNCHANGED <<opts, second, first, outcome, ret, rendererSettings, localVars, hostVars, metaVars,
                   deleteStep, seeks, ffmpeg, ffmpegStatus, ffmpegStdin, ffmpegP,
                   ffmpegArgs, consumed, spawns, ends, gifVars>>

(***************************************************************************)
(* Lines 411-417: teardown on the success path.                            *)
(***************************************************************************)
Dispose ==
    /\ pc = "dispose"
    /\ \/ /\ pc' = "close" /\ UNCHANGED err
       \/ /\ pc' = "catch" /\ err' = "DisposeFailed"
    /\ UNCHANGED <<opts, second, first, outcome, ret, rendererSettings, localVars, hostVars, metaVars,
                   loopVars, ffmpegVars, gifVars>>

\* opts.browser ? await page.close() : await browser.close()
Close ==
    /\ pc = "close"
    /\ \/ /\ opts.browser
          /\ page' = "closed"
          /\ pc' = "encode"
          /\ UNCHANGED <<browser, err>>
       \/ /\ ~opts.browser
          /\ browser' = "closed"
          /\ page' = "closed"
          /\ pc' = "encode"
          /\ UNCHANGED err
       \/ /\ pc' = "catch" /\ err' = "CloseFailed"
          /\ UNCHANGED hostVars
    /\ UNCHANGED <<opts, second, first, outcome, ret, rendererSettings, localVars, metaVars, loopVars,
                   ffmpegVars, gifVars>>

(***************************************************************************)
(* Lines 423-504: the encoders.                                            *)
(***************************************************************************)
\* The encode step without the call of ffmpegStdin.end().
EncodeWithoutEnd ==
    /\ pc = "encode"
    /\ pc' = IF isMp4(opts.output) THEN "awaitFfmpeg"
             ELSE IF isGif(opts.output) THEN "convert" ELSE "return"
    /\ UNCHANGED <<callVars, rendererSettings, localVars, hostVars, metaVars, loopVars,
                   ffmpegVars, gifVars>>

\* ffmpegStdin.end() for an mp4; the branch taken otherwise.
Encode ==
    /\ pc = "encode"
    /\ IF isMp4(opts.output)
       THEN /\ ffmpegStdin' = IF ffmpegStdin = "open" THEN "ended" ELSE ffmpegStdin
            /\ ends' = ends + 1
            /\ pc' = "awaitFfmpeg"
       ELSE /\ pc' = IF isGif(opts.output) THEN "convert" ELSE "return"
            /\ UNCHANGED <<ffmpegStdin, ends>>
    /\ UNCHANGED <<callVars, rendererSettings, localVars, hostVars, metaVars, loopVars,
                   ffmpeg, ffmpegStatus, ffmpegP, ffmpegArgs, piped, consumed, spawns,
                   gifVars>>

\* await ffmpegP
AwaitFfmpeg ==
    /\ pc = "awaitFfmpeg"
    /\ \/ /\ ffmpegP.state = "resolved"
          /\ pc' = "return"
          /\ UNCHANGED err
       \/ /\ ffmpegP.state = "rejected"
          /\ pc' = "catch" /\ err' = ffmpegP.reason
    /\ UNCHANGED <<opts, second, first, outcome, ret, rendererSettings, localVars, hostVars, metaVars,
                   loopVars, ffmpegVars, gifVars>>

\* The convert step with its failure not thrown: gifski is run all the same.
ConvertIgnoresFailure ==
    /\ pc = "convert"
    /\ \E c \in {"done", "failed"} : convert' = c
    /\ pc' = "gifski"
    /\ UNCHANGED <<callVars, rendererSettings, localVars, hostVars, metaVars,
                   loopVars, ffmpegVars, gifski, gifskiInputs>>

\* await execa.shell(convert ...)
Convert ==
    /\ pc = "convert"
    /\ \/ /\ convert' = "done"
          /\ pc' = "gifski"
          /\ UNCHANGED err
       \/ /\ convert' = "failed"
          /\ pc' = "catch" /\ err' = "ConvertFailed"
    /\ UNCHANGED <<opts, second, first, outcome, ret, rendererSettings, localVars, hostVars, metaVars,
                   loopVars, ffmpegVars, gifski, gifskiInputs>>

\* await execa.shell(gifski ...)
Gifski ==
    /\ pc = "gifski"
    /\ gifskiInputs' = IF numFrames = 1 THEN 2 ELSE 1
    /\ \/ /\ gifski' = "done"
          /\ pc' = "return"
          /\ UNCHANGED err
       \/ /\ gifski' = "failed"
          /\ pc' = "catch" /\ err' = "GifskiFailed"
    /\ UNCHANGED <<opts, second, first, outcome, ret, rendererSettings, localVars, hostVars, metaVars,
                   loopVars, ffmpegVars, convert>>

(***************************************************************************)
(* Lines 506-521: the catch block and the return value.                    *)
(***************************************************************************)
\* catch (err) { console.error(...); await page.close(); throw err }: the page is
\* closed (again, if the error came after the teardown) and nothing else is released.
Catch ==
    /\ pc = "catch"
    /\ page' = "closed"
    /\ outcome' = "threw"
    /\ pc' = "done"
    /\ UNCHANGED <<opts, second, first, err, ret, rendererSettings, localVars, browser, metaVars,
                   loopVars, ffmpegVars, gifVars>>

\* return { numFrames, duration, name: nm }
Return ==
    /\ pc = "return"
    /\ ret' = [numFrames |-> numFrames, duration |-> duration, name |-> nm]
    /\ outcome' = "returned"
    /\ pc' = "done"
    /\ UNCHANGED <<opts, second, first, err, rendererSettings, localVars, hostVars, metaVars, loopVars,
                   ffmpegVars, gifVars>>

(***************************************************************************)
(* Lines 363-375: the events of the ffmpeg child.                          *)
(***************************************************************************)
\* ffmpeg.on('exit', (status) => status ? reject(...) : resolve()); the status is
\* null when a signal ended the process.
ExitSettles(status) ==
    IF Truthy(status) THEN Promise("rejected", "FFmpegExited") ELSE Promise("resolved", "")

FfmpegExit ==
    /\ ffmpeg = "running"
    /\ \E status \in {Num(0), Num(1), Null} :
        /\ ffmpeg' = "exited"
        /\ ffmpegStatus' = status
        /\ ffmpegP' = IF ffmpegP.state = "pending" THEN ExitSettles(status) ELSE ffmpegP
    /\ UNCHANGED <<callVars, rendererSettings, pc, localVars, hostVars, metaVars,
                   loopVars, ffmpegStdin, ffmpegArgs, piped, consumed, spawns, ends,
                   gifVars>>

\* stdin.on('error', (err) => { if (err.code !== 'EPIPE') return reject(err) }); the
\* stream is destroyed by its error and is no longer writable.
ErrorSettles(code) ==
    IF code # "EPIPE" THEN Promise("rejected", code) ELSE Promise("pending", "")

StdinError ==
    /\ ffmpegStdin \in {"open", "ended"}
    /\ piped # <<>>
    /\ \E code \in {"EPIPE", "ECONNRESET"} :
        /\ ffmpegStdin' = "destroyed"
        /\ ffmpegP' = IF ffmpegP.state = "pending" THEN ErrorSettles(code) ELSE ffmpegP
    /\ UNCHANGED <<callVars, rendererSettings, pc, localVars, hostVars, metaVars,
                   loopVars, ffmpeg, ffmpegStatus, ffmpegArgs, piped, consumed, spawns,
                   ends, gifVars>>

\* The ffmpeg process reads one more frame from its stdin pipe: the stream's
\* oldest buffered write is accepted by the pipe.  Nothing in renderLottie
\* waits for this (the value of write() is dropped and 'drain' has no listener).
FfmpegRead ==
    /\ ffmpeg = "running"
    /\ consumed < Len(piped)
    /\ consumed' = consumed + 1
    /\ UNCHANGED <<callVars, rendererSettings, pc, localVars, hostVars, metaVars,
                   loopVars, ffmpeg, ffmpegStatus, ffmpegStdin, ffmpegP, ffmpegArgs,
                   piped, spawns, ends, gifVars>>

(***************************************************************************)
(* The caller renders again after a successful call, passing the very same *)
(* options object: opts and its rendererSettings are as the first call     *)
(* left them, everything else starts afresh.                               *)
(***************************************************************************)
Reinvoke ==
    /\ pc = "done"
    /\ outcome = "returned"
    /\ ~second
    /\ second' = TRUE
    /\ first' = [reported |-> reported, captured |-> captured, ret |-> ret]
    /\ UNCHANGED <<opts, rendererSettings>>
    /\ pc' = "start"
    /\ outcome' = "pending"
    /\ err' = ""
    /\ ret' = NoRet
    /\ tempDir' = FALSE
    /\ fps' = 0 /\ nm' = Undef /\ w' = 0 /\ h' = 0 /\ width' = 0 /\ height' = 0
    /\ fpsScale' = Undef
    /\ browser' = IF opts.browser THEN "open" ELSE "none"
    /\ page' = "none"
    /\ reported' = NoReport
    /\ duration' = -1 /\ firstFrame' = -1 /\ numFrames' = -1 /\ targetFps' = -1
    /\ deleteStep' = [t |-> "NaN", n |-> 0]
    /\ frame' = -1
    /\ seeks' = <<>> /\ captured' = <<>> /\ files' = {}
    /\ ffmpeg' = "none" /\ ffmpegStatus' = Undef /\ ffmpegStdin' = "none"
    /\ ffmpegP' = Promise("none", "") /\ ffmpegArgs' = NoArgs /\ piped' = <<>>
    /\ consumed' = 0 /\ spawns' = 0 /\ ends' = 0
    /\ convert' = "none" /\ gifski' = "none" /\ gifskiInputs' = 0

Next ==
    \/ Reinvoke
    \/ Validate
    \/ LaunchBrowser
    \/ NewPage
    \/ PageSetup
    \/ Spawn
    \/ LoopExit
    \/ LoopSkip
    \/ Seek
    \/ Screenshot
    \/ Dispose
    \/ Close
    \/ Encode
    \/ AwaitFfmpeg
    \/ Convert
    \/ Gifski
    \/ Catch
    \/ Return
    \/ FfmpegExit
    \/ StdinError
    \/ FfmpegRead

Spec == Init /\ [][Next]_vars

(***************************************************************************)
(* Properties.                                                             *)
(***************************************************************************)
\* Nothing has been started by this call: no browser launched, no page, no child process.
NothingStarted ==
    /\ browser = IF opts.browser THEN "open" ELSE "none"
    /\ page = "none"
    /\ ffmpeg = "none" /\ convert = "none" /\ gifski = "none"

Finished == outcome # "pending"

\* C1: on every exit after the page was created, the page is closed, and the browser
\* is closed if this call launched it and left open if the caller supplied it.
C1_TeardownOnEveryExit ==
    (Finished /\ page # "none") =>
        /\ page = "closed"
        /\ browser = IF opts.browser THEN "open" ELSE "closed"

\* C2: whenever renderLottie has thrown, a spawned ffmpeg is no longer running, or at
\* least its stdin has been closed so that it exits.
C2_NoFfmpegLeftRunningOnThrow ==
    (outcome = "threw" /\ ffmpeg = "running") => ffmpegStdin \in {"ended", "destroyed"}

\* C3: an mp4 call returns only if ffmpeg exited with status zero (a non-zero status and
\* a death by signal both make it fail), and EPIPE on stdin is never what it throws.
C3_SuccessOnlyOnExitZero ==
    /\ (outcome = "returned" /\ isMp4(opts.output)) =>
            (ffmpeg = "exited" /\ ffmpegStatus = Num(0))
    /\ err # "EPIPE"

\* C4: the returned object holds the number of frames captured in this run, the
\* duration the page reported and the nm field of the animation data.
C4_ReturnValue ==
    outcome = "returned" =>
        /\ ret.numFrames = Len(captured)
        /\ ret.duration = reported.duration
        /\ ret.name = opts.data.nm

\* C5: every image a png/jpg call writes to its output path has the requested size,
\* width x height as derived from the options and the aspect ratio.
C5_OutputFilesHaveRequestedSize ==
    \A f \in files :
        f.dir = "output" => (f.width = width /\ f.height = height)

\* C6: both or neither of animationData and path (like an unsupported extension) make
\* the call fail before anything is started; exactly one never fails for that reason.
C6_SourceCheckedBeforeStart ==
    /\ (pc # "start" /\ (opts.animationData = opts.path \/ ~Supported(opts.output))) =>
            (outcome = "threw" /\ NothingStarted)
    /\ (opts.animationData # opts.path) => err \notin {"MutuallyExclusive", "MissingSource"}

C6_Witness_BothSourcesRejected ==
    /\ opts.animationData /\ opts.path /\ Supported(opts.output)
    /\ outcome = "threw" /\ err = "MutuallyExclusive"

\* C7 as stated: fr, w or h missing or not a positive integer always fails before any
\* browser or page exists.
MetadataMalformed ==
    \/ ~IsPositiveInteger(opts.data.fr)
    \/ ~IsPositiveInteger(opts.data.w)
    \/ ~IsPositiveInteger(opts.data.h)

C7_MalformedMetadataNeverRenders ==
    MetadataMalformed => (NothingStarted /\ (pc # "start" => outcome = "threw"))

\* C7 amended: a frame rate that truncates to a non-positive integer, or a w or h that
\* is present and not a positive integer, always fails with the validation error of
\* that field before any browser or page exists.
MetadataRejected ==
    \/ ToInt32(opts.data.fr) <= 0
    \/ (opts.data.w # Undef /\ ~(opts.data.w.t = "number" /\ opts.data.w.n % opts.data.w.d = 0
                                  /\ opts.data.w.n > 0))
    \/ (opts.data.h # Undef /\ ~(opts.data.h.t = "number" /\ opts.data.h.n % opts.data.h.d = 0
                                  /\ opts.data.h.n > 0))

C7_RejectedMetadataNeverRenders ==
    MetadataRejected =>
        /\ NothingStarted
        /\ pc # "start" =>
            /\ outcome = "threw"
            /\ (Supported(opts.output) /\ opts.animationData # opts.path /\ err # "ReadJsonFailed")
                    => err \in {"InvalidFr", "InvalidW", "InvalidH"}

C7_Witness_ZeroWidthRejected ==
    /\ opts.data.w = Num(0) /\ opts.data.fr = Num(30) /\ opts.data.h = Num(3)
    /\ outcome = "threw" /\ err = "InvalidW"

\* C8: a successful single still image run (of an animation that has frames) captures
\* exactly one frame, the first retained index from firstFrame on, writes it to the
\* output path, and starts no child process.
C8_SingleStillCapturesOneFrame ==
    (outcome = "returned" /\ ~isMultiFrame(opts.output) /\ reported.numFrames > 0) =>
        /\ Len(captured) = 1
        /\ seeks = captured
        /\ captured[1] >= firstFrame
        /\ ~Skipped(captured[1], deleteStep)
        /\ \A i \in firstFrame..(captured[1] - 1) : Skipped(i, deleteStep)
        /\ Cardinality(files) = 1
        /\ \A f \in files : f.dir = "output" /\ f.index = -1
        /\ ffmpeg = "none" /\ convert = "none" /\ gifski = "none"

\* C9: the frames seeked and captured are strictly increasing, lie in
\* [firstFrame, numFrames - 1], and a frame is seeked only once the screenshot of the
\* previous one has completed.
C9_CaptureInOrder ==
    /\ \A i \in 1..Len(seeks) : firstFrame <= seeks[i] /\ seeks[i] <= numFrames - 1
    /\ \A i \in 1..(Len(seeks) - 1) : seeks[i] < seeks[i + 1]
    /\ Len(captured) <= Len(seeks)
    /\ captured = SubSeq(seeks, 1, Len(captured))
    /\ Len(seeks) <= Len(captured) + 1
    /\ Len(seeks) = Len(captured) + 1 => pc \in {"screenshot", "catch", "done"}
    /\ pc = "screenshot" => (Len(seeks) = Len(captured) + 1 /\ seeks[Len(seeks)] = frame)

C9_Witness_SeveralFramesWithGap ==
    /\ outcome = "returned"
    /\ Len(captured) >= 2
    /\ \E i \in 1..(Len(captured) - 1) : captured[i + 1] > captured[i] + 1

\* C10: targetFps is floor(fps * fpsScale), or fps when that is below 20; so it is
\* below 20 only if fps is.  fpsScale is the value the caller's object holds when
\* the call is made (none in a second call with the same object), 1 when not given.
C10_TargetFps ==
    targetFps # -1 =>
        LET given == IF second THEN Undef ELSE opts.rendererSettings.fpsScale
            k == IF given = Undef THEN Num(1) ELSE given
            scaled == (fps * k.n) \div k.d
        IN  /\ targetFps = IF scaled < MinTargetFps THEN fps ELSE scaled
            /\ targetFps < MinTargetFps => fps < MinTargetFps

C10_Witness_FallbackToNative ==
    /\ ~second
    /\ opts.rendererSettings.fpsScale = Frac(1, 2)
    /\ fps = 30
    /\ targetFps = 30

\* C11: an odd reported frame count above 1 is used, as the loop bound and as the
\* returned numFrames, minus one; an even count, 0 and 1 are used unchanged.
C11_ParityFix ==
    reported.numFrames # -1 =>
        LET n == reported.numFrames
            eff == IF n % 2 = 1 /\ n > 1 THEN n - 1 ELSE n
        IN  /\ numFrames = eff
            /\ \A i \in 1..Len(seeks) : seeks[i] < eff
            /\ outcome = "returned" => ret.numFrames = eff

C11_Witness_OddCountReduced ==
    /\ reported.numFrames = 3 /\ reported.firstFrame = 0
    /\ opts.output = Out("png", TRUE)
    /\ outcome = "returned"
    /\ captured = <<0, 1>>
    /\ ret.numFrames = 2

\* C12: the scale filter of ffmpeg names one dimension, always an even one (width if
\* even, else height if even, else width + 1), and leaves the other as -2.
C12_ScaleFilterEven ==
    ffmpeg # "none" =>
        /\ width % 2 = 0 => (ffmpegArgs.scaleW = width /\ ffmpegArgs.scaleH = -2)
        /\ (width % 2 # 0 /\ height % 2 = 0) =>
                (ffmpegArgs.scaleW = -2 /\ ffmpegArgs.scaleH = height)
        /\ (width % 2 # 0 /\ height % 2 # 0) =>
                (ffmpegArgs.scaleW = width + 1 /\ ffmpegArgs.scaleH = -2)
        /\ ffmpegArgs.scaleW % 2 = 0 /\ ffmpegArgs.scaleH % 2 = 0
        /\ (ffmpegArgs.scaleW = -2) # (ffmpegArgs.scaleH = -2)

C12_Witness_BothOddPadded ==
    /\ ffmpeg = "running"
    /\ width = 5 /\ height = 3
    /\ ffmpegArgs.scaleW = 6 /\ ffmpegArgs.scaleH = -2

\* C13: a second successful call with the very same options object retains the same
\* frames and returns the same frame count and duration as the first.
C13_SecondRunIdentical ==
    (second /\ outcome = "returned") =>
        /\ captured = first.captured
        /\ ret.numFrames = first.ret.numFrames
        /\ ret.duration = first.ret.duration

\* The indices the capture loop retains: those in [ff, n - 1] its drop rule keeps.
Retained(ff, n, ds) == {i \in ff..(n - 1) : ~Skipped(i, ds)}

Elems(q) == {q[i] : i \in 1..Len(q)}

\* C14: for mp4 output the frames written by the loop and not yet accepted by the
\* pipe never number more than a fixed capacity, whatever the frame count.
C14_BoundedUnacceptedFrames ==
    isMp4(opts.output) => Len(piped) - consumed <= PipeCapacity

\* C15: in every mp4 run that returns, the buffers written to ffmpeg's stdin are
\* exactly the captured frames, each once and in capture order.
C15_EveryCapturedFramePiped ==
    (outcome = "returned" /\ isMp4(opts.output)) => piped = captured

C17_DropRuleAchievesTargetRate ==
    (frame # -1 /\ numFrames > 0) =>
        LET kept == Cardinality(Retained(0, numFrames, deleteStep))
            rate == IF targetFps < fps THEN targetFps ELSE fps
        IN  Abs(kept * fps - numFrames * rate) <= fps

\* C18: when targetFps equals fps the stride is not a finite number and skips
\* nothing: every index from firstFrame to numFrames - 1 is retained, a multi-frame
\* call that returns has captured exactly those indices in order, and an image
\* sequence has one file for each of them and no other.
C18_EqualRatesKeepEveryFrame ==
    (frame # -1 /\ targetFps = fps) =>
        LET all == firstFrame..(numFrames - 1)
        IN  /\ deleteStep.t \in {"Infinity", "NaN"}
            /\ Retained(firstFrame, numFrames, deleteStep) = all
            /\ (outcome = "returned" /\ isMultiFrame(opts.output)) =>
                  /\ Len(captured) = Cardinality(all)
                  /\ \A i \in 1..Len(captured) : captured[i] = firstFrame + i - 1
                  /\ ~isMp4(opts.output) =>
                        /\ {f.index : f \in files} = all
                        /\ Cardinality(files) = Cardinality(all)

C18_Witness_SequenceWithoutGaps ==
    /\ outcome = "returned" /\ opts.output = Out("png", TRUE)
    /\ targetFps = fps /\ deleteStep.t = "Infinity"
    /\ firstFrame = 1 /\ numFrames = 4
    /\ captured = <<1, 2, 3>>
    /\ {f.index : f \in files} = {1, 2, 3}

\* C19: when gifski is run, its input pattern is listed twice if the capture loop
\* retained exactly one frame and once if it retained more than one.
C19_SingleRetainedFrameListedTwice ==
    gifski # "none" =>
        /\ Len(captured) = 1 => gifskiInputs = 2
        /\ Len(captured) > 1 => gifskiInputs = 1

\* C20: convert is run only for a GIF, after the loop has ended with every retained
\* frame captured to the temporary sequence; gifski is run only after convert has
\* succeeded; if convert fails gifski is never run and the call throws.
C20_GifStagesInSequence ==
    /\ convert # "none" =>
          /\ isGif(opts.output)
          /\ ~LoopCond(frame, numFrames)
          /\ Elems(captured) = Retained(firstFrame, numFrames, deleteStep)
          /\ {f.index : f \in files} = Elems(captured)
          /\ \A f \in files : f.dir = "temp"
    /\ pc = "convert" => (convert = "none" /\ gifski = "none")
    /\ (pc = "gifski" \/ gifski # "none") => convert = "done"
    /\ convert = "failed" =>
          /\ gifski = "none"
          /\ pc \in {"catch", "done"}
          /\ Finished => outcome = "threw"

C20_Witness_ConvertFailedNoGifski ==
    /\ convert = "failed" /\ gifski = "none" /\ outcome = "threw"
    /\ Len(captured) >= 2
====
